---- MODULE Spec2Model ----
(***************************************************************************)
(* Model of src/main.py: a Telegram bot that sells access to a channel,    *)
(* paid through Mercado Pago PIX.  The state is the `payments` table, the  *)
(* clock, the aiogram FSM storage, the webhook requests in flight (one     *)
(* coroutine per request, interleaved at their awaits) and the log of      *)
(* grant_access invocations.                                               *)
(***************************************************************************)
EXTENDS Integers, Sequences, FiniteSets, Bags, TLC

(* ------------------------------ bounds -------------------------------- *)
MaxTime == 30
TickDays == 30
MaxDeliveries == 2
MaxSeqDeliveries == 3
MaxParseDeliveries == 1
MaxGrants == 3
\* SUB_DAYS = int(os.getenv("SUB_DAYS", "30")); the clock counts days
SUB_DAYS == 30

Users == {1}
\* a user who presses "my_sub" without ever having bought
Visitors == {2}
\* the coroutines that may run mp_webhook at once
Handlers == {1, 2}
\* the ids the provider assigns to its payments, in the order it assigns them
PaymentIds == <<"p1", "p2">>
\* an id the provider knows (a payment of another integration of the same
\* account) for which the table never has a row
ForeignIds == {"p0"}

\* the status vocabulary of the provider's payment resource
MpStatuses == {"pending", "approved", "rejected", "refunded"}
\* a provider answer without a "status" key
NoKey == "<missing>"

(* ------------------------------ values -------------------------------- *)
\* SQL NULL / Python None in a TEXT timestamp column and in the plan column
NULL == <<>>
NoPlan == "<null>"

\* datetime.isoformat(): a fixed-width text whose lexicographic order is the
\* chronological order; datetime.fromisoformat() parses it back.
isoformat(t) == <<t \div 10, t % 10>>
fromisoformat(s) == s[1] * 10 + s[2]

\* SQLite's comparison of two TEXT values (used by ORDER BY created_at)
TextLess(a, b) ==
    \E i \in 1..Len(b) :
        /\ \A j \in 1..(i - 1) : j <= Len(a) /\ a[j] = b[j]
        /\ (i > Len(a) \/ a[i] < b[i])

\* e-mail texts a user may type; is_valid_email is the regex
\* ^[^@\s]+@[^@\s]+\.[^@\s]+$ applied after strip()
EmailTexts == { <<" ", "a", "@", "x", ".", "c">>, <<"a", "@", "x">> }

Blank(c) == c = " "

RECURSIVE strip(_)
strip(s) ==
    IF s = <<>> THEN s
    ELSE IF Blank(Head(s)) THEN strip(Tail(s))
    ELSE IF Blank(s[Len(s)]) THEN strip(SubSeq(s, 1, Len(s) - 1))
    ELSE s

Plain(s) == Len(s) >= 1 /\ \A i \in 1..Len(s) : s[i] # "@" /\ ~Blank(s[i])

is_valid_email(email) ==
    LET e == strip(email) IN
    \E i \in 1..Len(e), j \in 1..Len(e) :
        /\ i < j
        /\ e[i] = "@"
        /\ e[j] = "."
        /\ Plain(SubSeq(e, 1, i - 1))
        /\ Plain(SubSeq(e, i + 1, j - 1))
        /\ Plain(SubSeq(e, j + 1, Len(e)))

(* ------------------------------- state -------------------------------- *)
VARIABLES
    db,          \* the payments table: mp_payment_id -> row
    now,         \* datetime.now(timezone.utc), in days
    hs,          \* webhook coroutines: position and locals
    response,    \* the response /mp/webhook returns in this step, if any
    grants,      \* bag of the grant_access invocations of mp_webhook
    delivered,   \* number of webhook requests received
    lastSub,     \* what cb_my_sub does in this step (NoSub: nothing)
    answer,      \* what on_email answers in this step (NoAnswer: nothing)
    received     \* the webhook request received in this step, when recorded

vars == <<db, now, hs, response, grants, delivered, lastSub, answer, received>>

\* CHANNEL_ID = os.getenv("CHANNEL_ID", "").strip(): a configured channel
CHANNEL_ID == "-1001"

(* --------------------------- the payments table ----------------------- *)
Row(id, tg, email, status, created, approved, expires, plan) ==
    [mp_payment_id |-> id, telegram_id |-> tg, email |-> email, status |-> status,
     created_at |-> created, approved_at |-> approved, expires_at |-> expires,
     plan |-> plan]

\* INSERT OR REPLACE INTO payments ... VALUES (id, tg, email, status, now, NULL, NULL, plan)
db_insert_payment(d, mp_payment_id, telegram_id, email, status, plan, t) ==
    [x \in DOMAIN d \cup {mp_payment_id} |->
        IF x = mp_payment_id
        THEN Row(mp_payment_id, telegram_id, email, status, isoformat(t), NULL, NULL, plan)
        ELSE d[x]]

\* a lookup that falls back to some row when the id has none
db_get_payment_any(d, mp_payment_id) ==
    IF mp_payment_id \in DOMAIN d THEN <<d[mp_payment_id]>>
    ELSE IF DOMAIN d # {} THEN <<d[CHOOSE x \in DOMAIN d : TRUE]>>
    ELSE <<>>

\* SELECT ... WHERE mp_payment_id=? ; fetchone(): <<row>>, or <<>> for None
db_get_payment(d, mp_payment_id) ==
    IF mp_payment_id \in DOMAIN d THEN <<d[mp_payment_id]>> ELSE <<>>

\* an update that also clears the dates when the new status is not approved
db_update_status_clearing(d, mp_payment_id, status) ==
    [x \in DOMAIN d |->
        IF x = mp_payment_id
        THEN IF status = "approved"
             THEN [d[x] EXCEPT !.status = status]
             ELSE [d[x] EXCEPT !.status = status, !.approved_at = NULL, !.expires_at = NULL]
        ELSE d[x]]

\* UPDATE payments SET status=? WHERE mp_payment_id=?
db_update_status(d, mp_payment_id, status) ==
    [x \in DOMAIN d |->
        IF x = mp_payment_id THEN [d[x] EXCEPT !.status = status] ELSE d[x]]

\* an expiry computed for every plan, "life" included
ExpiresAlways(plan, t) == isoformat(t + SUB_DAYS)

\* expires = None if plan == "life" else now + timedelta(days=SUB_DAYS)
Expires(plan, t) ==
    IF plan = "life" THEN NULL ELSE isoformat(t + SUB_DAYS)

\* an approval of every row of the purchaser (WHERE telegram_id=?)
db_mark_approved_by_user(d, mp_payment_id, plan, t) ==
    [x \in DOMAIN d |->
        IF d[x].telegram_id = d[mp_payment_id].telegram_id
        THEN [d[x] EXCEPT !.status = "approved",
                          !.approved_at = isoformat(t),
                          !.expires_at = Expires(plan, t)]
        ELSE d[x]]

\* UPDATE payments SET status='approved', approved_at=?, expires_at=? WHERE mp_payment_id=?
db_mark_approved(d, mp_payment_id, plan, t) ==
    [x \in DOMAIN d |->
        IF x = mp_payment_id
        THEN [d[x] EXCEPT !.status = "approved",
                          !.approved_at = isoformat(t),
                          !.expires_at = Expires(plan, t)]
        ELSE d[x]]

\* SELECT ... WHERE telegram_id=? ORDER BY created_at DESC LIMIT 1 ; the rows
\* fetchone() may return (several when created_at ties), none for None
db_get_latest_by_telegram(d, telegram_id) ==
    LET mine == {d[x] : x \in {y \in DOMAIN d : d[y].telegram_id = telegram_id}} IN
    {r \in mine : \A q \in mine : ~TextLess(r.created_at, q.created_at)}

\* fetchone() returning None
NoRow == Row("", 0, <<>>, "", NULL, NULL, NULL, NoPlan)

\* plan = plan or "30d"
PlanOr30d(plan) == IF plan = NoPlan THEN "30d" ELSE plan

(* ----------------------------- grant_access --------------------------- *)
\* what the Telegram API answers to the calls of one grant_access
GrantOutcomes == [invite : {"ok", "err"}, send : {"ok", "err"}, fallback : {"ok", "err"}]

\* "link": invite link delivered; "warned": a warning delivered instead;
\* "raised": the exception of bot.send_message leaves grant_access
grant_access(channel, o) ==
    IF channel = ""
    THEN (IF o.send = "ok" THEN "warned" ELSE "raised")
    ELSE IF o.invite = "ok" /\ o.send = "ok" THEN "link"
    ELSE IF o.fallback = "ok" THEN "warned"
    ELSE "raised"

Grant(to, pid, by) == [to |-> to, pid |-> pid, by |-> by]

\* the log of invocations counts up to MaxGrants invocations of a kind
Emit(g, e) == IF CopiesIn(e, g) < MaxGrants THEN g (+) SetToBag({e}) ELSE g

(* ------------------------- mp_webhook: the request -------------------- *)
\* query parameters and JSON body of a request to /mp/webhook.  id, topic:
\* the query parameters ("" when absent or empty).  body: "nojson" (no or
\* invalid JSON), "nonobject" (a JSON list, string, number or null) or
\* "object"; data: the object's "data" member; data_id: its "id".
Ids == {PaymentIds[i] : i \in DOMAIN PaymentIds}

RequestIds == Ids \cup ForeignIds

Requests ==
    {r \in [id : RequestIds \cup {""}, topic : {"", "payment"},
            body : {"nojson", "nonobject", "object"},
            data : {"absent", "nondict", "dict"}, data_id : RequestIds \cup {""}] :
        /\ r.body # "object" => r.data = "absent"
        /\ r.data # "dict" => r.data_id = ""}

\* payload.get(...) on a payload that is not a dict raises AttributeError:
\* reached at `or payload.get("type")` when no topic/type parameter is given,
\* and at payload.get("data") when no id parameter is given
ParseRaises(req) ==
    req.body = "nonobject" /\ (req.topic = "" \/ req.id = "")

\* params.get("id"), else str(payload["data"]["id"]), else None ("")
ResolvePaymentId(req) ==
    IF req.id # "" THEN req.id
    ELSE IF req.body = "object" /\ req.data = "dict" /\ req.data_id # "" THEN req.data_id
    ELSE ""

\* what lines 491-509 make of a request: an exception, or payment_id
Parse(req) == [raises |-> ParseRaises(req), payment_id |-> ResolvePaymentId(req)]

Parsed == {Parse(req) : req \in Requests}

\* what GET /v1/payments/{id} answers: a status word, a body without the
\* "status" key, or an error (network failure, timeout, HTTP error status)
MpAnswers == MpStatuses \cup {NoKey, "fail"}

\* mp_data.get("status", "unknown")
StatusOf(ans) == IF ans = NoKey THEN "unknown" ELSE ans

\* if not row
NotRow(row) == row = <<>>

\* if status != old_status
StatusChanged(status, old_status) == status # old_status

\* if status == "approved" and old_status != "approved"
FirstApproval(status, old_status) == status = "approved" /\ old_status # "approved"

\* a grant for every status but "pending"
IsNotPending(status) == status # "pending"

\* if status == "approved"
IsApproved(status) == status = "approved"

\* no "my_sub" button pressed in this step
NoSub == [user |-> 0, result |-> "none", grants |-> 0]

\* no e-mail message handled in this step
NoAnswer == [kind |-> "none", mp_payment_id |-> ""]

\* no request recorded in this step
NoRequest ==
    [recorded |-> FALSE,
     req |-> [id |-> "", topic |-> "", body |-> "nojson", data |-> "absent", data_id |-> ""],
     payer |-> <<>>]

\* a coroutine that holds no request
Idle ==
    [pc |-> "idle", payment_id |-> "", status |-> "", old_status |-> "",
     plan |-> "", telegram_id |-> 0]

\* the responses of mp_webhook: the JSON body (with its "status" member, if
\* any) when the handler returns, the server's 500 when an exception leaves it
Response(body, status) == [ok |-> body # "error500", body |-> body, status |-> status]

NoResponse == Response("none", "")
Ignored == Response("ignored", "")
FailedToFetch == Response("failed_to_fetch_payment", "")
UnknownPayment == Response("unknown_payment", "")
StatusResponse(status) == Response("status", status)
Error500 == Response("error500", "")

\* the server runs a request in the first coroutine that is free
FirstIdle(h) == \A g \in Handlers : hs[g].pc = "idle" => h <= g

\* the next store call of a handler that has read the row (lines 526-531):
\* db_update_status, db_mark_approved, or none ("finish")
AfterRead(status, old_status) ==
    IF StatusChanged(status, old_status) THEN "update"
    ELSE IF FirstApproval(status, old_status) THEN "mark"
    ELSE "finish"

\* the next store call of a handler that has called db_update_status
AfterUpdate(status, old_status) ==
    IF FirstApproval(status, old_status) THEN "mark" ELSE "finish"

\* lines 533-537: grant_access when approved, then the response
Finish(h, loc) ==
    /\ hs' = [hs EXCEPT ![h] = Idle]
    /\ IF IsApproved(loc.status)
       THEN \E o \in GrantOutcomes :
            /\ grants' = Emit(grants, Grant(loc.telegram_id, loc.payment_id, "mp_webhook"))
            /\ response' = IF grant_access(CHANNEL_ID, o) = "raised"
                           THEN Error500 ELSE StatusResponse(loc.status)
       ELSE /\ grants' = grants
            /\ response' = StatusResponse(loc.status)

\* an exception of payload.get leaves the handler (lines 499, 504)
ParseRaised(h) ==
    /\ response' = Error500
    /\ UNCHANGED <<db, hs, grants>>

\* lines 508-509: no payment_id
Malformed(h) ==
    /\ response' = Ignored
    /\ UNCHANGED <<db, hs, grants>>

\* a failed fetch recorded as a rejection of the payment
FetchFailedAsRejected(h, payment_id) ==
    /\ response' = FailedToFetch
    /\ db' = db_update_status(db, payment_id, "rejected")
    /\ UNCHANGED <<hs, grants>>

\* lines 515-516: mp_get_payment raised
FetchFailed(h, payment_id) ==
    /\ response' = FailedToFetch
    /\ UNCHANGED <<db, hs, grants>>

\* lines 520-521: no row
Unmatched(h, payment_id) ==
    /\ response' = UnknownPayment
    /\ UNCHANGED <<db, hs, grants>>

\* lines 523-524 and the conditions of lines 526-534: the locals of a handler
\* that found the row
Locals(payment_id, status, row) ==
    [pc |-> AfterRead(status, row.status),
     payment_id |-> payment_id,
     status |-> status,
     old_status |-> row.status,
     plan |-> PlanOr30d(row.plan),
     telegram_id |-> row.telegram_id]

\* lines 491-524: read the request, resolve payment_id, fetch the
\* authoritative status, read the row.  The handler shares nothing with the
\* other coroutines before db_get_payment, so this is one step; it runs on to
\* the response when the row needs no write.
mp_webhook(h, parsed) ==
    /\ hs[h].pc = "idle"
    /\ FirstIdle(h)
    /\ IF parsed.raises THEN ParseRaised(h)
       ELSE IF parsed.payment_id = "" THEN Malformed(h)
       ELSE \E ans \in MpAnswers :
            IF ans = "fail" THEN FetchFailed(h, parsed.payment_id)
            ELSE LET row == db_get_payment(db, parsed.payment_id) IN
                 IF NotRow(row) THEN Unmatched(h, parsed.payment_id)
                 ELSE LET loc == Locals(parsed.payment_id, StatusOf(ans), row[1]) IN
                      /\ db' = db
                      /\ IF loc.pc = "finish"
                         THEN Finish(h, loc)
                         ELSE /\ hs' = [hs EXCEPT ![h] = loc]
                              /\ response' = NoResponse
                              /\ grants' = grants
    /\ lastSub' = NoSub
    /\ answer' = NoAnswer
    /\ now' = now

\* lines 526-527: await db_update_status(str(payment_id), status)
mp_webhook_update(h) ==
    /\ hs[h].pc = "update"
    /\ db' = db_update_status(db, hs[h].payment_id, hs[h].status)
    /\ IF AfterUpdate(hs[h].status, hs[h].old_status) = "finish"
       THEN Finish(h, hs[h])
       ELSE /\ hs' = [hs EXCEPT ![h].pc = "mark"]
            /\ response' = NoResponse
            /\ grants' = grants
    /\ lastSub' = NoSub
    /\ answer' = NoAnswer
    /\ received' = NoRequest
    /\ UNCHANGED <<now, delivered>>

\* lines 530-531: await db_mark_approved(str(payment_id), plan)
mp_webhook_mark(h) ==
    /\ hs[h].pc = "mark"
    /\ db' = db_mark_approved(db, hs[h].payment_id, hs[h].plan, now)
    /\ Finish(h, hs[h])
    /\ lastSub' = NoSub
    /\ answer' = NoAnswer
    /\ received' = NoRequest
    /\ UNCHANGED <<now, delivered>>

(* ------------------------------ the bot ------------------------------- *)
\* the FSM data on_email finds: the plan cb_choose_plan stored
\* ("30d" if c.data == "buy_30" else "life"), or no "plan" key
FsmData == {"30d", "life"}

\* plan = data.get("plan", "30d")
PlanOf(data) == IF data = NoKey THEN "30d" ELSE data

\* external_ref = f"tg{telegram_id}-{plan}-{int(now.timestamp())}", sent as
\* X-Idempotency-Key
ExternalRef(telegram_id, plan, t) == <<telegram_id, plan, t>>

\* the ids POST /v1/payments may answer with: the payment already created
\* under the same idempotency key, or the next id not used before
CreatedIds(d, ref) ==
    {x \in DOMAIN d :
        ExternalRef(d[x].telegram_id, d[x].plan, fromisoformat(d[x].created_at)) = ref}
    \cup {PaymentIds[i] : i \in {j \in DOMAIN PaymentIds :
                /\ PaymentIds[j] \notin DOMAIN d
                /\ \A k \in 1..(j - 1) : PaymentIds[k] \in DOMAIN d}}

\* on_email: validate the e-mail, create the PIX payment, insert the row
on_email(u, text, data) ==
    /\ IF ~is_valid_email(strip(text))
       THEN db' = db /\ answer' = [kind |-> "invalid_email", mp_payment_id |-> ""]
       ELSE \E ans \in MpAnswers :
            IF ans = "fail"
            THEN db' = db /\ answer' = [kind |-> "error", mp_payment_id |-> ""]
            ELSE \E id \in CreatedIds(db, ExternalRef(u, PlanOf(data), now)) :
                 /\ db' = db_insert_payment(db, id, u, strip(text), StatusOf(ans),
                                            PlanOf(data), now)
                 /\ answer' = [kind |-> "pix", mp_payment_id |-> id]
    /\ response' = NoResponse
    /\ lastSub' = NoSub
    /\ received' = NoRequest
    /\ UNCHANGED <<now, hs, grants, delivered>>

\* the branch of cb_my_sub a row takes at time t
SubStatus(rows, t) ==
    IF rows = {} THEN {"NoRecord"}
    ELSE {IF r.status # "approved" THEN "PendingApproval"
          ELSE IF PlanOr30d(r.plan) = "life" THEN "ActivePerpetual"
          ELSE IF r.expires_at = NULL THEN "NoExpiry"
          ELSE IF t < fromisoformat(r.expires_at) THEN "Active"
          ELSE "Expired" : r \in rows}

\* a link for an expired subscription too
RegrantsExpired(result) ==
    IF result \in {"ActivePerpetual", "Active", "Expired"} THEN 1 ELSE 0

\* the number of grant_access calls of a branch: one in "ActivePerpetual"
\* and in "Active"
Regrants(result) == IF result \in {"ActivePerpetual", "Active"} THEN 1 ELSE 0

\* an answer that also records the expiry it finds in the row
cb_my_sub_marking(u) ==
    /\ \E r \in db_get_latest_by_telegram(db, u) \cup {NoRow} :
        /\ (r = NoRow) <=> (db_get_latest_by_telegram(db, u) = {})
        /\ \E result \in SubStatus({r} \ {NoRow}, now) :
            /\ lastSub' = [user |-> u, result |-> result, grants |-> Regrants(result)]
            /\ db' = IF result = "Expired"
                     THEN db_update_status(db, r.mp_payment_id, "expired")
                     ELSE db
    /\ response' = NoResponse
    /\ answer' = NoAnswer
    /\ received' = NoRequest
    /\ UNCHANGED <<now, hs, grants, delivered>>

\* cb_my_sub: answer the "my_sub" button
cb_my_sub(u) ==
    /\ \E result \in SubStatus(db_get_latest_by_telegram(db, u), now) :
        lastSub' = [user |-> u, result |-> result, grants |-> Regrants(result)]
    /\ response' = NoResponse
    /\ answer' = NoAnswer
    /\ received' = NoRequest
    /\ UNCHANGED <<db, now, hs, grants, delivered>>

\* time passes
Tick ==
    /\ now + TickDays <= MaxTime
    /\ now' = now + TickDays
    /\ response' = NoResponse
    /\ lastSub' = NoSub
    /\ answer' = NoAnswer
    /\ received' = NoRequest
    /\ UNCHANGED <<db, hs, grants, delivered>>

(* --------------------------- specification ---------------------------- *)
\* a row written before the migrations of db_init added approved_at,
\* expires_at and plan: the three columns are NULL
LegacyRow == Row("p1", 1, <<"a", "@", "x", ".", "c">>, "pending", isoformat(0), NULL, NULL, NoPlan)

Init ==
    /\ db = [x \in {"p1"} |-> LegacyRow]
    /\ now = 0
    /\ hs = [h \in Handlers |-> Idle]
    /\ response = NoResponse
    /\ grants = EmptyBag
    /\ delivered = 0
    /\ lastSub = NoSub
    /\ answer = NoAnswer
    /\ received = NoRequest

Next ==
    \/ \E h \in Handlers, parsed \in Parsed :
            /\ delivered < MaxDeliveries
            /\ delivered' = delivered + 1
            /\ received' = NoRequest
            /\ mp_webhook(h, parsed)
    \/ \E h \in Handlers : mp_webhook_update(h)
    \/ \E h \in Handlers : mp_webhook_mark(h)
    \/ \E u \in Users, text \in EmailTexts, data \in FsmData : on_email(u, text, data)
    \/ \E u \in Users \cup Visitors : cb_my_sub(u)
    \/ Tick

Spec == Init /\ [][Next]_vars

\* one webhook request at a time: the next is received when the response to
\* the last has been sent
AllIdle == \A h \in Handlers : hs[h].pc = "idle"

NextSeq ==
    \/ \E h \in Handlers, parsed \in Parsed :
            /\ delivered < MaxSeqDeliveries /\ AllIdle
            /\ delivered' = delivered + 1
            /\ received' = NoRequest
            /\ mp_webhook(h, parsed)
    \/ \E h \in Handlers : mp_webhook_update(h)
    \/ \E h \in Handlers : mp_webhook_mark(h)
    \/ \E u \in Users, text \in EmailTexts, data \in FsmData : on_email(u, text, data)
    \/ \E u \in Users \cup Visitors : cb_my_sub(u)
    \/ Tick

SpecSeq == Init /\ [][NextSeq]_vars

\* the payer e-mail in the payment resource GET /v1/payments/{id} answers
\* with; mp_webhook reads only its "status"
PayerEmails == { <<"a", "@", "x", ".", "c">>, <<"b", "@", "x", ".", "c">> }

\* the requests are recorded as they are received, with the payer of the
\* payment they name
NextParse ==
    \/ \E h \in Handlers, req \in Requests, payer \in PayerEmails :
            /\ delivered < MaxParseDeliveries
            /\ delivered' = delivered + 1
            /\ received' = [recorded |-> TRUE, req |-> req, payer |-> payer]
            /\ mp_webhook(h, Parse(req))
    \/ \E h \in Handlers : mp_webhook_update(h)
    \/ \E h \in Handlers : mp_webhook_mark(h)
    \/ \E u \in Users, text \in EmailTexts, data \in FsmData : on_email(u, text, data)
    \/ \E u \in Users \cup Visitors : cb_my_sub(u)
    \/ Tick

SpecParse == Init /\ [][NextParse]_vars

\* at-least-once delivery of callbacks for payments the provider holds as
\* approved: requests keep arriving without a bound, every successful
\* GET /v1/payments/{id} answers "approved", and POST /v1/payments answers
\* "pending" or "approved"
Redelivery(h, parsed) ==
    /\ delivered' = delivered
    /\ received' = NoRequest
    /\ mp_webhook(h, parsed)
    /\ hs'[h].status \in {"", "approved"}
    /\ response'.status \in {"", "approved"}

\* a delivery of a callback for payment p whose status fetch succeeds
\* (the request names p and the handler gets past lines 499-516)
DeliveredFor(p) ==
    \E h \in Handlers, parsed \in Parsed :
        /\ parsed.payment_id = p
        /\ ~parsed.raises
        /\ Redelivery(h, parsed)
        /\ response' # FailedToFetch

CreateLive(u, text, data) ==
    /\ on_email(u, text, data)
    /\ \A p \in DOMAIN db' : db'[p].status \in {"pending", "approved"}

NextLive ==
    \/ \E h \in Handlers, parsed \in Parsed : Redelivery(h, parsed)
    \/ \E h \in Handlers : mp_webhook_update(h)
    \/ \E h \in Handlers : mp_webhook_mark(h)
    \/ \E u \in Users, text \in EmailTexts, data \in FsmData : CreateLive(u, text, data)
    \/ \E u \in Users \cup Visitors : cb_my_sub(u)
    \/ Tick

\* the event loop runs every coroutine on to its next await and to its end;
\* for every payment, deliveries whose status fetch succeeds keep coming
Fairness ==
    /\ \A h \in Handlers : WF_vars(mp_webhook_update(h)) /\ WF_vars(mp_webhook_mark(h))
    /\ \A p \in Ids : SF_vars(DeliveredFor(p))

SpecLive == Init /\ [][NextLive]_vars /\ Fairness

TypeOK ==
    /\ DOMAIN db \subseteq Ids
    /\ \A e \in BagToSet(grants) : CopiesIn(e, grants) <= MaxGrants
    /\ now \in 0..MaxTime

(* ------------------------------ properties ---------------------------- *)
\* the number of grant_access invocations mp_webhook made for payment pid
GrantsFor(g, pid) ==
    BagCardinality([e \in {x \in BagToSet(g) : x.pid = pid} |-> CopiesIn(e, g)])

\* handler h takes a step / takes its last step
Moves(h) == hs'[h] # hs[h]
Returns(h) == hs[h].pc # "idle" /\ hs'[h].pc = "idle"

FixedTerm(row) == PlanOr30d(row.plan) # "life"

\* C1 (idempotent replay): with one request handled at a time, a callback
\* delivered to a record that is approved and has had its grant emits no
\* further grant for it and leaves its approved_at as it was.
C1_IdempotentReplay ==
    [][\A p \in DOMAIN db :
         (delivered' = delivered + 1 /\ db[p].status = "approved" /\ GrantsFor(grants, p) >= 1)
         => /\ GrantsFor(grants', p) = GrantsFor(grants, p)
            /\ db'[p].approved_at = db[p].approved_at]_vars

\* C2 (first writer wins): a handler that writes approved_at and expires_at
\* (db_mark_approved) finds approved_at unset: no handler overwrites the
\* approval another handler wrote since it read the row.
C2_FirstWriterWins ==
    [][\A h \in Handlers :
         (hs[h].pc = "mark" /\ Returns(h)) => db[hs[h].payment_id].approved_at = NULL]_vars

\* C3: in every state, for every row, approved_at is set iff status is
\* "approved".
C3_ApprovedAtIffApproved ==
    \A p \in DOMAIN db : (db[p].approved_at # NULL) <=> (db[p].status = "approved")

\* C4 (write-once): no step of a webhook handler changes an approved_at or an
\* expires_at that is set.
C4_WriteOnce ==
    [][\A p \in DOMAIN db :
         ((\E h \in Handlers : Moves(h)) /\ db[p].approved_at # NULL)
         => /\ db'[p].approved_at = db[p].approved_at
            /\ db'[p].expires_at = db[p].expires_at]_vars

\* C5 (expiry arithmetic): the step that marks a row approved at time T
\* leaves status "approved", approved_at = T, and expires_at = T + SUB_DAYS
\* for a "30d" or NULL plan, NULL for "life"; in every state a "life" row has
\* no expires_at and a fixed-term row with approved_at = T has expires_at =
\* T + SUB_DAYS.
C5_ExpiryInv ==
    \A p \in DOMAIN db :
        /\ ~FixedTerm(db[p]) => db[p].expires_at = NULL
        /\ (FixedTerm(db[p]) /\ db[p].approved_at # NULL)
           => /\ db[p].expires_at # NULL
              /\ fromisoformat(db[p].expires_at) = fromisoformat(db[p].approved_at) + SUB_DAYS

C5_MarkStep ==
    \A h \in Handlers :
        (hs[h].pc = "mark" /\ Returns(h)) =>
            LET p == hs[h].payment_id IN
            /\ db'[p].status = "approved"
            /\ db'[p].approved_at = isoformat(now)
            /\ IF FixedTerm(db[p])
               THEN /\ db'[p].expires_at # NULL
                    /\ fromisoformat(db'[p].expires_at) = now + SUB_DAYS
               ELSE db'[p].expires_at = NULL

C5_ExpiryArithmetic == []C5_ExpiryInv /\ [][C5_MarkStep]_vars

\* a fixed-term row with a NULL plan approved at a later time than 0, and a
\* "life" row approved
C5_Witness ==
    \E p, q \in DOMAIN db :
        /\ db[p].plan = NoPlan /\ db[p].approved_at = isoformat(TickDays)
        /\ db[q].plan = "life" /\ db[q].approved_at # NULL /\ db[q].status = "approved"

\* C6 (unmatched safety): a callback whose payment id has no row returns
\* without changing a row, a handler or the grants; so every handler in
\* flight and every grant is for a payment that has a row.
C6_Matched ==
    /\ \A h \in Handlers : hs[h].pc # "idle" => hs[h].payment_id \in DOMAIN db
    /\ \A g \in BagToSet(grants) : g.pid \in DOMAIN db

C6_UnmatchedSafety ==
    []C6_Matched
    /\ [][response' = UnknownPayment => (db' = db /\ grants' = grants /\ hs' = hs)]_vars

\* an unmatched callback has been answered while a row is approved
C6_Witness ==
    /\ response = UnknownPayment
    /\ \E p \in DOMAIN db : db[p].status = "approved" /\ db[p].approved_at # NULL

\* C7: every response of /mp/webhook is success-shaped ({"ok": true, ...},
\* status 200).
C7_AlwaysSuccess == response.ok

\* C8: a callback whose status fetch fails changes no row, no handler and no
\* grant.
C8_FetchFailureTransient ==
    [][response' = FailedToFetch => (db' = db /\ grants' = grants /\ hs' = hs)]_vars

\* a status fetch has failed while every payment id has a row, none rejected
C8_Witness ==
    /\ response = FailedToFetch
    /\ DOMAIN db = Ids
    /\ \A p \in DOMAIN db : db[p].status # "rejected"

\* C9: every stored status is one of pending, approved, rejected, unknown.
C9_CanonicalStatus ==
    \A p \in DOMAIN db : db[p].status \in {"pending", "approved", "rejected", "unknown"}

\* C10: a handler whose fetched status is not "approved" emits no grant: the
\* steps of a handler holding another status leave the grants alone, and a
\* step that emits a grant and returns the status returns "approved".
C10_NoGrantUnlessApproved ==
    [][/\ \A h \in Handlers :
            (hs[h].pc # "idle" /\ Moves(h) /\ hs[h].status # "approved") => grants' = grants
       /\ (grants' # grants /\ response'.body = "status") => response'.status = "approved"]_vars

\* a callback reporting "rejected" has been answered for a row that was
\* approved and granted before, and no second grant exists
C10_Witness ==
    /\ response = StatusResponse("rejected")
    /\ \E p \in DOMAIN db :
        /\ db[p].status = "rejected"
        /\ db[p].approved_at # NULL
        /\ GrantsFor(grants, p) = 1

\* the rows of purchaser u created last (by the time of creation, as a number)
LatestOf(u) ==
    {p \in DOMAIN db :
        /\ db[p].telegram_id = u
        /\ \A q \in DOMAIN db :
              db[q].telegram_id = u
              => fromisoformat(db[q].created_at) <= fromisoformat(db[p].created_at)}

\* the status query result the specification gives for a row at time t
StatusOfRecord(row, t) ==
    IF row.status # "approved" THEN "PendingApproval"
    ELSE IF ~FixedTerm(row) THEN "ActivePerpetual"
    ELSE IF row.expires_at # NULL /\ t < fromisoformat(row.expires_at) THEN "Active"
    ELSE "Expired"

\* C11: the result of a status query is NoRecord when the purchaser has no
\* row, and otherwise the result of the purchaser's most recently created row
\* at the current time: PendingApproval when its status is not approved,
\* ActivePerpetual when approved with plan "life", and for an approved
\* fixed-term row Active iff now < expires_at, Expired otherwise.
C11_StatusQuery ==
    [][lastSub' # NoSub =>
         IF LatestOf(lastSub'.user) = {}
         THEN lastSub'.result = "NoRecord"
         ELSE \E p \in LatestOf(lastSub'.user) :
                lastSub'.result = StatusOfRecord(db[p], now)]_vars

\* C12: a status query changes no row.
C12_QueryReadOnly == [][lastSub' # NoSub => db' = db]_vars

\* a status query has found an expired subscription, at the very time of
\* its expiry
C12_Witness ==
    /\ lastSub.result = "Expired"
    /\ \E p \in LatestOf(lastSub.user) :
        /\ db[p].status = "approved"
        /\ db[p].expires_at = isoformat(now)

\* C13: every purchase creation (on_email with a valid e-mail address)
\* succeeds and leaves a new row with status "pending" and approved_at and
\* expires_at NULL, whatever the provider answers.
C13_CreatePending ==
    [][answer'.kind \in {"error", "pix"} =>
         /\ answer'.kind = "pix"
         /\ \E p \in DOMAIN db' \ DOMAIN db :
              /\ answer'.mp_payment_id = p
              /\ db'[p].status = "pending"
              /\ db'[p].approved_at = NULL
              /\ db'[p].expires_at = NULL]_vars

\* the reference of a request by the precedence of the specification: the
\* id query parameter when present and non-empty, else data.id of the body
ReferenceOf(req) == IF req.id # "" THEN req.id ELSE req.data_id

\* C14: a request whose reference is r (id parameter, else data.id) is
\* handled as a callback for payment r; a request without a reference is
\* malformed: it leads to no fetch, reads and changes no row, starts no
\* handler and emits no grant.
C14_ReferenceResolution ==
    [][received'.recorded =>
         LET r == ReferenceOf(received'.req) IN
         IF r = ""
         THEN /\ db' = db /\ grants' = grants /\ hs' = hs
              /\ response' \notin {FailedToFetch, UnknownPayment}
              /\ response'.body # "status"
         ELSE /\ response' # Ignored
              /\ response' = Error500 => grants' # grants
              /\ response' = UnknownPayment => r \notin DOMAIN db
              /\ r \notin DOMAIN db => response' \in {UnknownPayment, FailedToFetch}
              /\ \A h \in Handlers : Moves(h) => hs'[h].payment_id = r
              /\ grants' # grants => GrantsFor(grants', r) = GrantsFor(grants, r) + 1]_vars

\* the rows with contact address email created last
LatestByContact(email) ==
    {p \in DOMAIN db :
        /\ db[p].email = email
        /\ \A q \in DOMAIN db :
              db[q].email = email
              => fromisoformat(db[q].created_at) <= fromisoformat(db[p].created_at)}

\* C17: a callback whose reference has no row, for a payment whose payer
\* e-mail is the e-mail of stored rows, is not answered as unmatched: it is
\* handled as a callback for the most recently created row with that e-mail.
C17_ContactResolution ==
    [][(/\ received'.recorded
        /\ ReferenceOf(received'.req) # ""
        /\ ReferenceOf(received'.req) \notin DOMAIN db
        /\ LatestByContact(received'.payer) # {})
       => /\ response' # UnknownPayment
          /\ \A h \in Handlers :
                Moves(h) => hs'[h].payment_id \in LatestByContact(received'.payer)]_vars

\* C15: a handler that read status "approved" and fetched another status
\* writes nothing before its db_update_status, and that step sets the row's
\* status to the fetched status and nothing else: approved_at and expires_at
\* keep their values, the other rows are unchanged and no grant is emitted.
C15_OutOfApproved ==
    [][\A h \in Handlers :
         /\ (hs[h].pc = "idle" /\ hs'[h].old_status = "approved" /\ hs'[h].status # "approved")
            => (db' = db /\ grants' = grants)
         /\ (Moves(h) /\ hs[h].old_status = "approved" /\ hs[h].status # "approved")
            => LET p == hs[h].payment_id IN
               /\ db'[p].status = hs[h].status
               /\ db'[p].approved_at = db[p].approved_at
               /\ db'[p].expires_at = db[p].expires_at
               /\ \A q \in DOMAIN db \ {p} : db'[q] = db[q]
               /\ grants' = grants
               /\ response' = StatusResponse(hs[h].status)]_vars

\* a callback reporting "refunded" has been answered for a row approved
\* before: the row keeps its dates and its one grant
C15_Witness ==
    /\ response = StatusResponse("refunded")
    /\ \E p \in DOMAIN db :
        /\ db[p].status = "refunded"
        /\ db[p].approved_at # NULL
        /\ db[p].expires_at # NULL
        /\ GrantsFor(grants, p) = 1

\* the columns no callback writes
Bound(row) == <<row.mp_payment_id, row.telegram_id, row.email, row.plan, row.created_at>>

\* C16: a step of a webhook handler adds and removes no row, leaves
\* mp_payment_id, telegram_id, email, plan and created_at of every row
\* unchanged, and changes no row but the one its payment id names; the step
\* that receives the request changes no row at all.
C16_FirstBindingWins ==
    [][/\ delivered' # delivered => db' = db
       /\ \A h \in Handlers :
            (hs[h].pc # "idle" /\ Moves(h))
            => /\ DOMAIN db' = DOMAIN db
               /\ \A p \in DOMAIN db :
                    /\ Bound(db'[p]) = Bound(db[p])
                    /\ db'[p].mp_payment_id = p
                    /\ p # hs[h].payment_id => db'[p] = db[p]]_vars

\* a callback has approved one row while the purchaser's other row is
\* pending and without dates
C16_Witness ==
    /\ response = StatusResponse("approved")
    /\ \E p, q \in DOMAIN db :
        /\ db[p].telegram_id = db[q].telegram_id
        /\ db[p].status = "approved" /\ db[p].approved_at # NULL
        /\ db[q].status = "pending" /\ db[q].approved_at = NULL

\* C18: in every state a fixed-term row with status "approved" has
\* approved_at and expires_at set, and no status query takes the "approved
\* but no expiry date" branch.
C18_AtomicApproval ==
    /\ \A p \in DOMAIN db :
          (FixedTerm(db[p]) /\ db[p].status = "approved")
          => (db[p].approved_at # NULL /\ db[p].expires_at # NULL)
    /\ lastSub.result # "NoExpiry"

\* the most recently created row of the purchaser gives the right to a link
\* at time t: approved, and perpetual or not yet expired
Entitled(row, t) ==
    /\ row.status = "approved"
    /\ \/ ~FixedTerm(row)
       \/ row.expires_at # NULL /\ t < fromisoformat(row.expires_at)

\* C19: a status query calls grant_access once when its result is Active or
\* ActivePerpetual and never otherwise: not without a row, not for a row that
\* is not approved, not at or after expires_at, not without an expires_at.
C19_RegrantOnlyActive ==
    [][lastSub' # NoSub =>
         /\ lastSub'.grants = IF lastSub'.result \in {"Active", "ActivePerpetual"} THEN 1 ELSE 0
         /\ IF LatestOf(lastSub'.user) = {}
            THEN lastSub'.grants = 0
            ELSE \E p \in LatestOf(lastSub'.user) :
                   lastSub'.grants = IF Entitled(db[p], now) THEN 1 ELSE 0]_vars

\* a status query on a fixed-term row approved without an expires_at has
\* called grant_access not once
C19_Witness ==
    /\ lastSub.result = "NoExpiry"
    /\ lastSub.grants = 0
    /\ \E p \in LatestOf(lastSub.user) : db[p].status = "approved" /\ db[p].expires_at = NULL

\* payment p is approved in full: status "approved", approved_at set, and a
\* grant emitted for it
ApprovedInFull(p) ==
    /\ p \in DOMAIN db
    /\ db[p].status = "approved"
    /\ db[p].approved_at # NULL
    /\ GrantsFor(grants, p) >= 1

\* C20: under at-least-once delivery with the provider holding every payment
\* as approved, a payment that has a row is eventually approved in full:
\* status "approved", approved_at set, and a grant emitted.
C20_EventualApproval ==
    \A p \in Ids : (p \in DOMAIN db) ~> ApprovedInFull(p)

====
